---- MODULE Spec2Model ----
(***************************************************************************)
(* A model of the ESLint rule no-inline-multiline-types                    *)
(* (lib/rules/no-inline-multiline-types.mjs).                              *)
(*                                                                         *)
(* A source file is a text (a sequence of text units: one unit per         *)
(* character of an identifier, one unit per keyword, punctuator or line    *)
(* break) and its syntax tree, the nodes in traversal (pre-order) order,   *)
(* each with its type, the property of its parent that holds it, its name, *)
(* its depth and its range in the text.  The rule's listeners run in that  *)
(* order; each report carries the fix the rule's fix callback returns.     *)
(***************************************************************************)
EXTENDS Integers, Sequences, FiniteSets, TLC

\* ------------------------------------------------------------------ bounds

\* Leading declarations of a file, before the statement under analysis.
MaxPrelude == 1

\* Fixes the host applies to one file, each followed by a new analysis.
MaxPasses == 4

\* ------------------------------------------------------------------- text

LowerLetters == <<"a", "b", "c", "d", "e", "f", "g", "h", "i", "j", "k", "l", "m",
                  "n", "o", "p", "q", "r", "s", "t", "u", "v", "w", "x", "y", "z">>

UpperLetters == <<"A", "B", "C", "D", "E", "F", "G", "H", "I", "J", "K", "L", "M",
                  "N", "O", "P", "Q", "R", "S", "T", "U", "V", "W", "X", "Y", "Z">>

\* /[a-z]/
IsLower(c) == \E i \in 1..Len(LowerLetters) : LowerLetters[i] = c

\* String.prototype.toUpperCase on one character
toUpperCase(c) ==
  IF IsLower(c)
  THEN UpperLetters[CHOOSE i \in 1..Len(LowerLetters) : LowerLetters[i] = c]
  ELSE c

\* str.replace(/_([a-z])/g, (match, char) => char.toUpperCase())
RECURSIVE replaceSnake(_)
replaceSnake(str) ==
  IF str = <<>> THEN <<>>
  ELSE IF Len(str) >= 2 /\ str[1] = "_" /\ IsLower(str[2])
       THEN <<toUpperCase(str[2])>> \o replaceSnake(SubSeq(str, 3, Len(str)))
       ELSE <<str[1]>> \o replaceSnake(Tail(str))

toPascalCase(str) ==
  IF str = <<>> THEN <<>>
  ELSE LET s == replaceSnake(str)
       IN  <<toUpperCase(s[1])>> \o Tail(s)

\* The characters of the words the rule writes into names.
TypeWord == <<"T", "y", "p", "e">>
PropsWord == <<"P", "r", "o", "p", "s">>
PropsTypeWord == <<"P", "r", "o", "p", "s", "T", "y", "p", "e">>
ParamsTypeWord == <<"P", "a", "r", "a", "m", "s", "T", "y", "p", "e">>
ReturnTypeWord == <<"R", "e", "t", "u", "r", "n", "T", "y", "p", "e">>
FunctionWordMutant == <<"A", "n", "o", "n", "y", "m", "o", "u", "s">>
FunctionWord == <<"F", "u", "n", "c", "t", "i", "o", "n">>
ExtractedTypeWord == <<"E", "x", "t", "r", "a", "c", "t", "e", "d", "T", "y", "p", "e">>

\* ------------------------------------------------------------ syntax trees

\* A fragment: a forest of nodes over a piece of text, ranges relative to it.
Tok(units) == [nodes |-> <<>>, text |-> units]

Shift(nodes, by) ==
  [i \in 1..Len(nodes) |->
     [nodes[i] EXCEPT !.start = @ + by, !.end = @ + by]]

Deepen(nodes) ==
  [i \in 1..Len(nodes) |-> [nodes[i] EXCEPT !.depth = @ + 1]]

Cat(a, b) ==
  [nodes |-> a.nodes \o Shift(b.nodes, Len(a.text)), text |-> a.text \o b.text]

RECURSIVE CatAll(_)
CatAll(frags) ==
  IF frags = <<>> THEN Tok(<<>>)
  ELSE Cat(frags[1], CatAll(Tail(frags)))

\* One node of the given type spanning the fragment, the fragment's nodes below it.
Node(type, slot, name, frag) ==
  [nodes |-> <<[type |-> type, slot |-> slot, name |-> name, depth |-> 0,
                start |-> 0, end |-> Len(frag.text)]>> \o Deepen(frag.nodes),
   text |-> frag.text]

NoName == <<>>

Ident(slot, name) == Node("Identifier", slot, name, Tok(name))

\* --------------------------------------------------------------- type forms

\* The shapes of annotated types the analysed files draw from.
\*   "one"    {x: string;}                       an object type on one line
\*   "multi"  {\n x: string;\n }                 an object type over several lines
\*   "nest"   {\n x: {\n y: string;\n };\n }     with a nested multiline member
\*   "gen"    {\n x: T;\n }                      mentioning a type parameter T
\*   "string" string                             not an object type
\*   "none"   no annotation
LiteralForms == {"one", "multi", "nest", "gen"}
TypeForms == LiteralForms \cup {"string"}

KwString(slot) == Node("TSStringKeyword", slot, NoName, Tok(<<"string">>))

TypeRef(slot, name) ==
  Node("TSTypeReference", slot, NoName, Ident("typeName", name))

TypeAnn(slot, ty) ==
  Node("TSTypeAnnotation", slot, NoName, Cat(Tok(<<": ">>), ty))

Member(key, ty) ==
  Node("TSPropertySignature", "members", NoName,
       CatAll(<<Ident("key", key), TypeAnn("typeAnnotation", ty), Tok(<<";">>)>>))

TypeLit(slot, body) ==
  Node("TSTypeLiteral", slot, NoName, CatAll(<<Tok(<<"{">>), body, Tok(<<"}">>)>>))

NL == Tok(<<"\n">>)

LitOne(slot) == TypeLit(slot, Member(<<"x">>, KwString("typeAnnotation")))

LitMulti(slot) ==
  TypeLit(slot, CatAll(<<NL, Member(<<"x">>, KwString("typeAnnotation")), NL>>))

LitNest(slot) ==
  TypeLit(slot,
          CatAll(<<NL,
                   Member(<<"x">>,
                          TypeLit("typeAnnotation",
                                  CatAll(<<NL, Member(<<"y">>, KwString("typeAnnotation")),
                                           NL>>))),
                   NL>>))

LitGen(slot) ==
  TypeLit(slot, CatAll(<<NL, Member(<<"x">>, TypeRef("typeAnnotation", <<"T">>)), NL>>))

TypeOf(form, slot) ==
  CASE form = "one" -> LitOne(slot)
    [] form = "multi" -> LitMulti(slot)
    [] form = "nest" -> LitNest(slot)
    [] form = "gen" -> LitGen(slot)
    [] form = "string" -> KwString(slot)

\* ": <type>" in the given property of the annotated node, or nothing.
OptAnn(slot, form) ==
  IF form = "none" THEN Tok(<<>>) ELSE TypeAnn(slot, TypeOf(form, "typeAnnotation"))

\* -------------------------------------------------------------- statements

cfg == <<"c", "f", "g">>
my_c == <<"m", "y", "_", "c">>
MAX_N == <<"M", "A", "X", "_", "N">>
get_c == <<"g", "e", "t", "_", "c">>

Lit1(slot) == Node("Literal", slot, NoName, Tok(<<"1">>))

VarDecl(slot, kw, target, init, semi) ==
  Node("VariableDeclaration", slot, NoName,
       CatAll(<<Tok(<<kw>>),
                Node("VariableDeclarator", "declarations", NoName, Cat(target, init)),
                Tok(IF semi THEN <<";">> ELSE <<>>)>>))

\* let <name>: <form>;
LetDecl(slot, name, form) ==
  VarDecl(slot, "let ",
          Node("Identifier", "id", name, Cat(Tok(name), OptAnn("typeAnnotation", form))),
          Tok(<<>>), TRUE)

\* let {a}: <form> = 1;
LetPattern(slot, form) ==
  VarDecl(slot, "let ",
          Node("ObjectPattern", "id", NoName,
               CatAll(<<Tok(<<"{">>),
                        Node("Property", "properties", NoName, Ident("key", <<"a">>)),
                        Tok(<<"}">>), OptAnn("typeAnnotation", form)>>)),
          Cat(Tok(<<" = ">>), Lit1("init")), TRUE)

ParamId(name, form) ==
  Node("Identifier", "params", name, Cat(Tok(name), OptAnn("typeAnnotation", form)))

ParamObj(form) ==
  Node("ObjectPattern", "params", NoName,
       CatAll(<<Tok(<<"{">>),
                Node("Property", "properties", NoName, Ident("key", <<"a">>)),
                Tok(<<"}">>), OptAnn("typeAnnotation", form)>>))

ParamArr(form) ==
  Node("ArrayPattern", "params", NoName,
       CatAll(<<Tok(<<"[">>), Ident("elements", <<"a">>), Tok(<<"]">>),
                OptAnn("typeAnnotation", form)>>))

ParamRest(name, form) ==
  Node("RestElement", "params", NoName,
       CatAll(<<Tok(<<"...">>), Ident("argument", name), OptAnn("typeAnnotation", form)>>))

\* <name>: <form> = 1      the annotation hangs on the pattern's left side
AssignPat(slot, name, form) ==
  Node("AssignmentPattern", slot, NoName,
       CatAll(<<Node("Identifier", "left", name,
                     Cat(Tok(name), OptAnn("typeAnnotation", form))),
                Tok(<<" = ">>), Lit1("right")>>))

ParamDef(name, form) == AssignPat("params", name, form)

\* private <name>: <form>
ParamProp(name, form) ==
  Node("TSParameterProperty", "params", NoName,
       Cat(Tok(<<"private ">>),
           Node("Identifier", "parameter", name,
                Cat(Tok(name), OptAnn("typeAnnotation", form)))))

\* private <name>: <form> = 1
ParamPropDef(name, form) ==
  Node("TSParameterProperty", "params", NoName,
       Cat(Tok(<<"private ">>), AssignPat("parameter", name, form)))

Block(slot, stmts) ==
  Node("BlockStatement", slot, NoName, CatAll(<<Tok(<<"{">>), stmts, Tok(<<"}">>)>>))

OptId(name) == IF name = NoName THEN Tok(<<>>) ELSE Ident("id", name)

TypeParams(name) ==
  IF name = NoName THEN Tok(<<>>)
  ELSE Node("TSTypeParameterDeclaration", "typeParameters", NoName,
            CatAll(<<Tok(<<"<">>),
                     Node("TSTypeParameter", "params", NoName, Ident("name", name)),
                     Tok(<<">">>)>>))

FuncDecl(slot, fname, tparams, params, ret, body) ==
  Node("FunctionDeclaration", slot, NoName,
       CatAll(<<Tok(<<"function ">>), OptId(fname), TypeParams(tparams), Tok(<<"(">>),
                params, Tok(<<")">>), OptAnn("returnType", ret), Block("body", body)>>))

FuncExpr(slot, fname, params, ret, body) ==
  Node("FunctionExpression", slot, NoName,
       CatAll(<<Tok(IF slot = "value" THEN <<>> ELSE <<"function ">>), OptId(fname),
                Tok(<<"(">>), params, Tok(<<")">>), OptAnn("returnType", ret),
                Block("body", body)>>))

Arrow(slot, params, ret) ==
  Node("ArrowFunctionExpression", slot, NoName,
       CatAll(<<Tok(<<"(">>), params, Tok(<<")">>), OptAnn("returnType", ret),
                Tok(<<" => ">>), Lit1("body")>>))

\* const <name> = <expression>;
ConstDecl(slot, name, expr) ==
  VarDecl(slot, "const ", Ident("id", name), Cat(Tok(<<" = ">>), expr), TRUE)

\* const {a} = <expression>;
ConstPattern(slot, expr) ==
  VarDecl(slot, "const ",
          Node("ObjectPattern", "id", NoName,
               CatAll(<<Tok(<<"{">>),
                        Node("Property", "properties", NoName, Ident("key", <<"a">>)),
                        Tok(<<"}">>)>>)),
          Cat(Tok(<<" = ">>), expr), TRUE)

PropDef(key, form) ==
  Node("PropertyDefinition", "body", NoName,
       CatAll(<<Ident("key", key), OptAnn("typeAnnotation", form), Tok(<<";">>)>>))

Method(key, params, body) ==
  Node("MethodDefinition", "body", NoName,
       Cat(Ident("key", key), FuncExpr("value", NoName, params, "none", body)))

\* <key>(): <form> {}
MethodRet(key, ret) ==
  Node("MethodDefinition", "body", NoName,
       Cat(Ident("key", key), FuncExpr("value", NoName, Tok(<<>>), ret, Tok(<<>>))))

ClassDecl(slot, cname, members) ==
  Node("ClassDeclaration", slot, NoName,
       CatAll(<<Tok(<<"class ">>), Ident("id", cname),
                Node("ClassBody", "body", NoName,
                     CatAll(<<Tok(<<"{">>), members, Tok(<<"}">>)>>))>>))

\* run(<expression>);
CallStmt(slot, expr) ==
  Node("ExpressionStatement", slot, NoName,
       Cat(Node("CallExpression", "expression", NoName,
                CatAll(<<Ident("callee", <<"r">>), Tok(<<"(">>), expr, Tok(<<")">>)>>)),
           Tok(<<";">>)))

ExportNamed(slot, decl) ==
  Node("ExportNamedDeclaration", slot, NoName, Cat(Tok(<<"export ">>), decl))

ExportDefault(slot, decl) ==
  Node("ExportDefaultDeclaration", slot, NoName, Cat(Tok(<<"export default ">>), decl))

Namespace(slot, stmts) ==
  Node("TSModuleDeclaration", slot, NoName,
       CatAll(<<Tok(<<"namespace ">>), Ident("id", <<"N">>),
                Node("TSModuleBlock", "body", NoName,
                     CatAll(<<Tok(<<"{">>), stmts, Tok(<<"}">>)>>))>>))

\* for (let <name>: <form> = 1;;) {}
ForStmt(slot, name, form) ==
  Node("ForStatement", slot, NoName,
       CatAll(<<Tok(<<"for (">>),
                VarDecl("init", "let ",
                        Node("Identifier", "id", name,
                             Cat(Tok(name), OptAnn("typeAnnotation", form))),
                        Cat(Tok(<<" = ">>), Lit1("init")), FALSE),
                Tok(<<";;) ">>), Block("body", Tok(<<>>))>>))

TypeAlias(slot, name, ty) ==
  Node("TSTypeAliasDeclaration", slot, NoName,
       CatAll(<<Tok(<<"type ">>), Ident("id", name), Tok(<<" = ">>), ty, Tok(<<";">>)>>))

Interface(slot, name, form) ==
  Node("TSInterfaceDeclaration", slot, NoName,
       CatAll(<<Tok(<<"interface ">>), Ident("id", name),
                Node("TSInterfaceBody", "body", NoName,
                     CatAll(<<Tok(<<"{">>), NL,
                              Member(<<"x">>, TypeOf(form, "typeAnnotation")), NL,
                              Tok(<<"}">>)>>))>>))

\* ------------------------------------------------------------------ files

\* The statements under analysis: every annotation site the rule's listeners
\* look at, in every container the insertion-point search distinguishes.
Variables ==
  {LetDecl("body", n, f) : n \in {cfg, my_c}, f \in TypeForms \ {"gen"}}
  \cup {LetPattern("body", "multi"), LetDecl("body", MAX_N, "multi")}

Functions ==
  {FuncDecl("body", get_c, <<>>, ParamId(cfg, f), "none", Tok(<<>>)) : f \in TypeForms \ {"gen"}}
  \cup {FuncDecl("body", get_c, <<>>, p, "none", Tok(<<>>)) :
          p \in {ParamObj("one"), ParamObj("multi"), ParamArr("multi"),
                 ParamRest(cfg, "multi"), ParamDef(cfg, "one"), ParamDef(cfg, "multi"),
                 ParamDef(cfg, "nest")}}
  \cup {FuncDecl("body", get_c, <<>>, Tok(<<>>), f, Tok(<<>>)) : f \in {"one", "multi", "string"}}
  \cup {FuncDecl("body", get_c, <<>>,
                 CatAll(<<ParamId(cfg, "multi"), Tok(<<", ">>), ParamObj("nest")>>),
                 "multi", Tok(<<>>)),
        FuncDecl("body", get_c, <<"T">>, ParamId(cfg, "gen"), "none", Tok(<<>>)),
        FuncDecl("body", get_c, <<>>, ParamId(cfg, "multi"), "none",
                 LetDecl("body", cfg, "multi")),
        FuncDecl("body", get_c, <<>>, Tok(<<>>), "none", ForStmt("body", cfg, "multi"))}

Classes ==
  {ClassDecl("body", <<"C">>, PropDef(my_c, f)) : f \in {"one", "multi", "string"}}
  \cup {ClassDecl("body", <<"C">>, Method(<<"k">>, p, Tok(<<>>))) :
          p \in {ParamProp(cfg, "one"), ParamProp(cfg, "multi"), ParamPropDef(cfg, "multi"),
                 ParamId(my_c, "multi"), ParamObj("multi")}}
  \cup {ClassDecl("body", <<"C">>,
                  Cat(PropDef(cfg, "multi"), Method(<<"k">>, ParamProp(cfg, "nest"), Tok(<<>>)))),
        ClassDecl("body", <<"C">>,
                  Cat(PropDef(my_c, "one"), Method(<<"k">>, ParamProp(cfg, "multi"), Tok(<<>>)))),
        ClassDecl("body", <<"C">>,
                  Cat(Method(<<"k">>, Tok(<<>>), LetDecl("body", cfg, "multi")),
                      PropDef(my_c, "multi")))}

Expressions ==
  {ConstDecl("body", <<"f">>, Arrow("init", ParamId(cfg, f), "none")) : f \in {"one", "multi"}}
  \cup {ConstDecl("body", <<"f">>, Arrow("init", ParamObj("multi"), "none")),
        ConstDecl("body", <<"f">>, Arrow("init", Tok(<<>>), "multi")),
        ConstDecl("body", <<"f">>,
                  FuncExpr("init", get_c, ParamArr("multi"), "multi", Tok(<<>>))),
        CallStmt("body", Arrow("arguments", ParamId(cfg, "one"), "none")),
        CallStmt("body", Arrow("arguments", ParamId(cfg, "multi"), "multi")),
        CallStmt("body", FuncExpr("arguments", NoName, ParamObj("multi"), "none",
                                  LetDecl("body", my_c, "multi")))}

Wrapped ==
  {ExportNamed("body", LetDecl("declaration", cfg, f)) : f \in {"one", "multi"}}
  \cup {ExportNamed("body", FuncDecl("declaration", get_c, <<>>, ParamId(cfg, "multi"),
                                     "none", LetDecl("body", my_c, "multi"))),
        ExportNamed("body", ClassDecl("declaration", <<"C">>, PropDef(cfg, "multi"))),
        ExportDefault("body", FuncDecl("declaration", NoName, <<>>, ParamObj("multi"),
                                       "multi", Tok(<<>>))),
        ExportDefault("body", Arrow("declaration", ParamId(cfg, "multi"), "none")),
        ExportNamed("body", ConstDecl("declaration", get_c, Arrow("init", Tok(<<>>), "multi"))),
        Namespace("body", LetDecl("body", cfg, "multi")),
        Namespace("body", ExportNamed("body", LetDecl("declaration", cfg, "multi"))),
        ForStmt("body", cfg, "multi")}

\* Functions whose return type is annotated: with a name of their own, bound
\* to a variable, bound to a pattern, a method's, an argument.
Returns ==
  {FuncDecl("body", get_c, <<>>, Tok(<<>>), "multi",
            Cat(ConstDecl("body", my_c, Arrow("init", Tok(<<>>), "multi")),
                CallStmt("body", Arrow("arguments", Tok(<<>>), "multi")))),
   ConstPattern("body", Arrow("init", Tok(<<>>), "multi")),
   ConstDecl("body", my_c, FuncExpr("init", NoName, Tok(<<>>), "one", Tok(<<>>))),
   ClassDecl("body", <<"C">>, MethodRet(get_c, "multi"))}

Definitions ==
  {TypeAlias("body", <<"W">>, TypeOf(f, "typeAnnotation")) : f \in {"one", "multi", "nest"}}
  \cup {Interface("body", <<"W">>, f) : f \in {"string", "multi"}}

Mains ==
  Variables \cup Functions \cup Classes \cup Expressions \cup Wrapped \cup Returns
  \cup Definitions

\* Declarations that may precede the statement: an alias that already has the
\* name the rule derives for cfg, a second site deriving it, an interface.
Preludes ==
  {TypeAlias("body", <<"C", "f", "g", "T", "y", "p", "e">>, KwString("typeAnnotation")),
   LetDecl("body", cfg, "multi"),
   Interface("body", <<"I">>, "one")}

RECURSIVE PreludeSeqs(_)
PreludeSeqs(n) ==
  IF n = 0 THEN {<<>>}
  ELSE PreludeSeqs(n - 1)
       \cup {<<p>> \o ps : p \in Preludes, ps \in {q \in PreludeSeqs(n - 1) : Len(q) = n - 1}}

RECURSIVE Lines(_)
Lines(stmts) ==
  IF Len(stmts) = 1 THEN stmts[1]
  ELSE CatAll(<<stmts[1], NL, Lines(Tail(stmts))>>)

Program(stmts) == Node("Program", "", NoName, Lines(stmts))

Files == {Program(ps \o <<m>>) : ps \in PreludeSeqs(MaxPrelude), m \in Mains}

\* -------------------------------------------------------------- navigation

\* node.parent; 0 is null.  In traversal order the parent is the nearest
\* earlier node one level up.
RECURSIVE nearestAbove(_, _, _)
nearestAbove(t, depth, j) ==
  IF t[j].depth = depth - 1 THEN j ELSE nearestAbove(t, depth, j - 1)

Parent(t, i) == IF t[i].depth = 0 THEN 0 ELSE nearestAbove(t, t[i].depth, i - 1)

\* The last node of the subtree of i.
RECURSIVE subtreeEnd(_, _, _)
subtreeEnd(t, depth, k) ==
  IF k > Len(t) \/ t[k].depth <= depth THEN k - 1 ELSE subtreeEnd(t, depth, k + 1)

Last(t, i) == subtreeEnd(t, t[i].depth, i + 1)

\* node[slot], for a property holding one node; 0 is null or undefined
Child(t, i, slot) ==
  IF i = 0 THEN 0
  ELSE LET c == {j \in (i + 1)..Last(t, i) :
                   t[j].depth = t[i].depth + 1 /\ t[j].slot = slot}
       IN  IF c = {} THEN 0 ELSE CHOOSE j \in c : \A k \in c : j <= k

\* node[slot], for a property holding a list of nodes, in order
RECURSIVE Ascending(_)
Ascending(set) ==
  IF set = {} THEN <<>>
  ELSE LET m == CHOOSE j \in set : \A k \in set : j <= k
       IN  <<m>> \o Ascending(set \ {m})

Children(t, i, slot) ==
  Ascending({j \in (i + 1)..Last(t, i) :
               t[j].depth = t[i].depth + 1 /\ t[j].slot = slot})

\* sourceCode.getText(node)
getText(t, text, i) == SubSeq(text, t[i].start + 1, t[i].end)

\* node.loc.start.line, node.loc.end.line
LinesBefore(text, offset) == Cardinality({k \in 1..offset : text[k] = "\n"})
StartLine(t, text, i) == 1 + LinesBefore(text, t[i].start)
EndLine(t, text, i) == 1 + LinesBefore(text, t[i].end)

\* --------------------------------------------------------------- the rule

targetAncestorTypes ==
  {"VariableDeclaration", "FunctionDeclaration", "ClassDeclaration",
   "TSInterfaceDeclaration", "TSTypeAliasDeclaration"}

\* Parent types without the block.
validParentContextTypesMutant ==
  {"Program", "ExportNamedDeclaration", "ExportDefaultDeclaration"}

validParentContextTypes ==
  {"Program", "BlockStatement", "ExportNamedDeclaration", "ExportDefaultDeclaration"}

\* No special case for export declarations.
ExportTypesMutant == {}

ExportTypes == {"ExportNamedDeclaration", "ExportDefaultDeclaration"}

FunctionTypes == {"FunctionDeclaration", "FunctionExpression", "ArrowFunctionExpression"}

\* One turn of the while loop of findInsertionPointAncestor, at currentNode.
RECURSIVE ancestorLoop(_, _, _)
ancestorLoop(t, startNode, currentNode) ==
  LET parent == Parent(t, currentNode)
      declaration == Child(t, currentNode, "declaration")
  IN  IF parent = 0 THEN 0
      ELSE IF /\ t[currentNode].type \in targetAncestorTypes
              /\ t[parent].type \in validParentContextTypes
           THEN IF t[parent].type \in ExportTypes THEN parent ELSE currentNode
      ELSE IF /\ t[currentNode].type \in ExportTypes
              /\ declaration # 0
              /\ t[declaration].type \in targetAncestorTypes
           THEN currentNode
      ELSE IF t[parent].type = "Program"
           THEN IF t[startNode].type \in targetAncestorTypes THEN startNode ELSE 0
      ELSE ancestorLoop(t, startNode, parent)

\* The node to insert the alias before; 0 is null.
findInsertionPointAncestor(t, startNode) == ancestorLoop(t, startNode, startNode)

\* A lookup that never finds the name.
idNameMutant(t, i) == NoName

\* parent.parent.id?.name, parent.id?.name; NoName is undefined
idName(t, i) ==
  LET id == Child(t, i, "id") IN IF id = 0 THEN NoName ELSE t[id].name

\* The check of a direct parameter alone, without the parameter property's.
isParameterMutant(t, parent, pp) ==
  t[pp].type \in FunctionTypes /\ t[parent].slot = "params"

\* parent.parent.params.includes(parent), or parent.parent.parameter === parent
isParameter(t, parent, pp) ==
  \/ t[pp].type \in FunctionTypes /\ t[parent].slot = "params"
  \/ t[pp].type = "TSParameterProperty" /\ t[parent].slot = "parameter"

deriveTypeName(t, typeAnnotationNode) ==
  LET parent == Parent(t, typeAnnotationNode)
      pp == IF parent = 0 THEN 0 ELSE Parent(t, parent)
      key == Child(t, parent, "key")
      parameter == Child(t, parent, "parameter")
  IN  IF parent = 0 THEN ExtractedTypeWord
      ELSE IF /\ t[parent].type = "Identifier"
              /\ pp # 0
              /\ t[pp].type = "VariableDeclarator"
           THEN toPascalCase(t[parent].name) \o TypeWord
      ELSE IF /\ t[parent].type = "Identifier"
              /\ pp # 0
              /\ t[pp].type \in FunctionTypes \cup {"TSParameterProperty"}
              /\ isParameter(t, parent, pp)
           THEN toPascalCase(t[parent].name) \o TypeWord
      ELSE IF /\ t[parent].type = "ObjectPattern"
              /\ pp # 0
              /\ t[pp].type \in FunctionTypes
           THEN IF idName(t, pp) # NoName
                THEN toPascalCase(idName(t, pp)) \o PropsWord
                ELSE PropsTypeWord
      ELSE IF /\ t[parent].type = "ArrayPattern"
              /\ pp # 0
              /\ t[pp].type \in FunctionTypes
           THEN ParamsTypeWord
      ELSE IF /\ t[parent].type = "PropertyDefinition"
              /\ key # 0
              /\ t[key].type = "Identifier"
           THEN toPascalCase(t[key].name) \o TypeWord
      ELSE IF /\ t[parent].type \in FunctionTypes
              /\ t[typeAnnotationNode].slot = "returnType"
           THEN IF /\ idName(t, parent) = NoName
                   /\ pp # 0
                   /\ t[pp].type = "VariableDeclarator"
                   /\ t[Child(t, pp, "id")].type = "Identifier"
                THEN toPascalCase(t[Child(t, pp, "id")].name) \o ReturnTypeWord
                ELSE toPascalCase(IF idName(t, parent) # NoName
                                  THEN idName(t, parent) ELSE FunctionWord)
                     \o ReturnTypeWord
      ELSE IF /\ t[parent].type = "TSParameterProperty"
              /\ parameter # 0
              /\ t[parameter].type = "Identifier"
           THEN toPascalCase(t[parameter].name) \o TypeWord
      ELSE ExtractedTypeWord

\* An alias text that ends with the line, without the blank line.
typeAliasStringMutant(newTypeName, literalText) ==
  <<"type ">> \o newTypeName \o <<" = ">> \o literalText \o <<";", "\n">>

\* `type ${newTypeName} = ${literalText};\n\n`
typeAliasString(newTypeName, literalText) ==
  <<"type ">> \o newTypeName \o <<" = ">> \o literalText \o <<";", "\n", "\n">>

\* fixer.insertTextBefore(node, text), fixer.replaceText(node, text)
insertTextBefore(t, i, units) == [range |-> <<t[i].start, t[i].start>>, text |-> units]
replaceText(t, i, units) == [range |-> <<t[i].start, t[i].end>>, text |-> units]

\* A fix callback that still replaces the literal when it finds no insertion point.
fixMutant(t, text, typeAnnotationNode, literalNode) ==
  LET newTypeName == deriveTypeName(t, typeAnnotationNode)
      literalText == getText(t, text, literalNode)
      insertionAncestor == findInsertionPointAncestor(t, typeAnnotationNode)
  IN  IF insertionAncestor = 0 THEN <<replaceText(t, literalNode, newTypeName)>>
      ELSE <<insertTextBefore(t, insertionAncestor,
                              typeAliasString(newTypeName, literalText)),
             replaceText(t, literalNode, newTypeName)>>

\* The fix callback of the report: the edits it returns, <<>> for null.
fix(t, text, typeAnnotationNode, literalNode) ==
  LET newTypeName == deriveTypeName(t, typeAnnotationNode)
      literalText == getText(t, text, literalNode)
      insertionAncestor == findInsertionPointAncestor(t, typeAnnotationNode)
  IN  IF insertionAncestor = 0 THEN <<>>
      ELSE <<insertTextBefore(t, insertionAncestor,
                              typeAliasString(newTypeName, literalText)),
             replaceText(t, literalNode, newTypeName)>>

\* A check without the test of the annotated type's kind.
checkMultilineLiteralInAnnotationMutant(t, text, typeAnnotationNode) ==
  IF typeAnnotationNode = 0 \/ t[typeAnnotationNode].type # "TSTypeAnnotation" THEN <<>>
  ELSE LET literalNode == Child(t, typeAnnotationNode, "typeAnnotation")
       IN  IF literalNode # 0
           THEN <<[node |-> literalNode, messageId |-> "inlineType",
                   fix |-> fix(t, text, typeAnnotationNode, literalNode)]>>
           ELSE <<>>

\* The reports one call makes: none or one.
checkMultilineLiteralInAnnotation(t, text, typeAnnotationNode) ==
  IF typeAnnotationNode = 0 \/ t[typeAnnotationNode].type # "TSTypeAnnotation" THEN <<>>
  ELSE LET literalNode == Child(t, typeAnnotationNode, "typeAnnotation")
       IN  IF literalNode # 0 /\ t[literalNode].type = "TSTypeLiteral"
           THEN <<[node |-> literalNode, messageId |-> "inlineType",
                   fix |-> fix(t, text, typeAnnotationNode, literalNode)]>>
           ELSE <<>>

\* The listeners of the visitor map: the annotation nodes each hands to
\* checkMultilineLiteralInAnnotation, in order.
VariableDeclarator(t, node) ==
  LET id == Child(t, node, "id")
  IN  IF id # 0 /\ Child(t, id, "typeAnnotation") # 0
      THEN <<Child(t, id, "typeAnnotation")>> ELSE <<>>

PropertyDefinition(t, node) ==
  IF Child(t, node, "typeAnnotation") # 0 THEN <<Child(t, node, "typeAnnotation")>> ELSE <<>>

paramAnnotation(t, param) ==
  IF Child(t, param, "typeAnnotation") # 0 THEN <<Child(t, param, "typeAnnotation")>>
  ELSE IF /\ t[param].type = "TSParameterProperty"
          /\ Child(t, param, "parameter") # 0
          /\ Child(t, Child(t, param, "parameter"), "typeAnnotation") # 0
       THEN <<Child(t, Child(t, param, "parameter"), "typeAnnotation")>>
       ELSE <<>>

RECURSIVE paramAnnotations(_, _)
paramAnnotations(t, params) ==
  IF params = <<>> THEN <<>>
  ELSE paramAnnotation(t, params[1]) \o paramAnnotations(t, Tail(params))

function(t, node) ==
  (IF Child(t, node, "returnType") # 0 THEN <<Child(t, node, "returnType")>> ELSE <<>>)
  \o paramAnnotations(t, Children(t, node, "params"))

\* A map that also listens to the members of object types.
unlistedMutant(t, node) ==
  IF t[node].type = "TSPropertySignature" /\ Child(t, node, "typeAnnotation") # 0
  THEN <<Child(t, node, "typeAnnotation")>>
  ELSE <<>>

\* The map has no listener for any other node type.
unlisted(t, node) == <<>>

RECURSIVE checkAll(_, _, _)
checkAll(t, text, annotations) ==
  IF annotations = <<>> THEN <<>>
  ELSE checkMultilineLiteralInAnnotation(t, text, annotations[1])
       \o checkAll(t, text, Tail(annotations))

\* ------------------------------------------------------------------ state

VARIABLES
  text,      \* the source text of the file under analysis
  ast,       \* its syntax tree, in traversal order
  pc,        \* the next node the traversal enters; Len(ast) + 1 when it is over
  reports,   \* the reports of this traversal, in order
  passes,    \* fixes applied so far
  applied    \* the fix applied last: its name, its literal's text, where it was written

vars == <<text, ast, pc, reports, passes, applied>>

NoFix == [name |-> NoName, body |-> <<>>, site |-> 0]

Init ==
  /\ \E f \in Files : text = f.text /\ ast = f.nodes
  /\ pc = 1
  /\ reports = <<>>
  /\ passes = 0
  /\ applied = NoFix

\* The traversal enters node pc; its listener, if it has one, runs.
Report(annotations) ==
  /\ reports' = reports \o checkAll(ast, text, annotations)
  /\ pc' = pc + 1
  /\ UNCHANGED <<text, ast, passes, applied>>

VisitVariableDeclarator ==
  /\ pc <= Len(ast)
  /\ ast[pc].type = "VariableDeclarator"
  /\ Report(VariableDeclarator(ast, pc))

VisitPropertyDefinition ==
  /\ pc <= Len(ast)
  /\ ast[pc].type = "PropertyDefinition"
  /\ Report(PropertyDefinition(ast, pc))

VisitFunction ==
  /\ pc <= Len(ast)
  /\ ast[pc].type \in FunctionTypes
  /\ Report(function(ast, pc))

VisitOther ==
  /\ pc <= Len(ast)
  /\ ast[pc].type \notin FunctionTypes \cup {"VariableDeclarator", "PropertyDefinition"}
  /\ Report(unlisted(ast, pc))

\* ------------------------------------------------------------------- host

\* The host applies the two edits of a fix as one edit of the text.
applyEdits(units, insertFix, replaceFix) ==
  SubSeq(units, 1, insertFix.range[1])
  \o insertFix.text
  \o SubSeq(units, insertFix.range[1] + 1, replaceFix.range[1])
  \o replaceFix.text
  \o SubSeq(units, replaceFix.range[2] + 1, Len(units))

\* The statement the inserted text lands before: the outermost node that
\* starts at the insertion offset.
statementAt(t, offset) ==
  CHOOSE i \in 1..Len(t) :
    /\ t[i].start = offset /\ t[i].type # "Program"
    /\ \A j \in 1..(i - 1) : ~(t[j].start = offset /\ t[j].type # "Program")

\* The tree the parser gives for the edited text: the inserted text is a
\* type-alias declaration, a statement before the one it was inserted before,
\* whose body is the literal; the name written over the literal is a type
\* reference.  Every other node keeps its place and moves with the text.
reparse(t, units, report) ==
  LET insertFix == report.fix[1]
      replaceFix == report.fix[2]
      at == insertFix.range[1]
      from == replaceFix.range[1]
      to == replaceFix.range[2]
      name == replaceFix.text
      A == statementAt(t, at)
      L == report.node
      Le == Last(t, L)
      grow == Len(insertFix.text)
      delta == Len(name) - (to - from)
      literal == [nodes |-> [i \in 1..(Le - L + 1) |->
                               [t[L + i - 1] EXCEPT !.depth = @ - t[L].depth,
                                                    !.start = @ - from,
                                                    !.end = @ - from]],
                  text |-> SubSeq(units, from + 1, to)]
      alias == Cat(TypeAlias(t[A].slot, name, literal), Tok(<<"\n", "\n">>)).nodes
      ref == TypeRef("typeAnnotation", name).nodes
      place(nodes, depth, offset) ==
        [i \in 1..Len(nodes) |->
           [nodes[i] EXCEPT !.depth = @ + depth, !.start = @ + offset, !.end = @ + offset]]
      moved(i) ==
        [t[i] EXCEPT
           !.start = @ + (IF i >= A THEN grow ELSE 0) + (IF @ >= to THEN delta ELSE 0),
           !.end = @ + (IF i >= A \/ @ >= t[A].end THEN grow ELSE 0)
                     + (IF @ >= to THEN delta ELSE 0)]
      keep(lo, hi) == [i \in 1..(hi - lo + 1) |-> moved(lo + i - 1)]
  IN  keep(1, A - 1)
      \o place(alias, t[A].depth, at)
      \o keep(A, L - 1)
      \o place(ref, t[L].depth, from + grow)
      \o keep(Le + 1, Len(t))

\* Where reparse puts the reference written over the literal of the report.
siteAfter(t, report) == report.node + 2 + (Last(t, report.node) - report.node + 1)

\* The host applies the fix of one report of the finished traversal, parses
\* the new text and analyses it again.
ApplyFix ==
  /\ pc = Len(ast) + 1
  /\ passes < MaxPasses
  /\ \E k \in 1..Len(reports) :
       /\ reports[k].fix # <<>>
       /\ text' = applyEdits(text, reports[k].fix[1], reports[k].fix[2])
       /\ ast' = reparse(ast, text, reports[k])
       /\ applied' = [name |-> reports[k].fix[2].text,
                      body |-> getText(ast, text, reports[k].node),
                      site |-> siteAfter(ast, reports[k])]
  /\ pc' = 1
  /\ reports' = <<>>
  /\ passes' = passes + 1

Next ==
  \/ VisitVariableDeclarator
  \/ VisitPropertyDefinition
  \/ VisitFunction
  \/ VisitOther
  \/ ApplyFix

Spec == Init /\ [][Next]_vars

\* The steps of Next, by what they do to the position of the traversal and to
\* the count of fixes: the traversal enters the next node, or a fix of the
\* finished traversal is applied and the traversal starts again.
Advance ==
  \/ /\ pc <= Len(ast)
     /\ pc' = pc + 1
     /\ passes' = passes
  \/ /\ pc = Len(ast) + 1
     /\ passes < MaxPasses
     /\ \E k \in 1..Len(reports) : reports[k].fix # <<>>
     /\ pc' = 1
     /\ passes' = passes + 1

\* The host goes on: a traversal it has begun enters every node, and it
\* applies a fix as long as a report carries one.
FairSpec == Spec /\ WF_<<pc, passes>>(Advance)

\* ------------------------------------------------------------ consistency

\* The tree is a tree over the text: ranges nest, and each node's text is
\* what a node of its type looks like.
TreeMatchesText ==
  \A i \in 1..Len(ast) :
    /\ 0 <= ast[i].start /\ ast[i].start < ast[i].end /\ ast[i].end <= Len(text)
    /\ i > 1 =>
         /\ Parent(ast, i) # 0
         /\ ast[Parent(ast, i)].start <= ast[i].start
         /\ ast[i].end <= ast[Parent(ast, i)].end
         /\ ast[i - 1].start <= ast[i].start
    /\ ast[i].type = "Identifier" =>
         SubSeq(text, ast[i].start + 1, ast[i].start + Len(ast[i].name)) = ast[i].name
    /\ ast[i].type = "TSTypeLiteral" =>
         text[ast[i].start + 1] = "{" /\ text[ast[i].end] = "}"
    /\ ast[i].type = "TSTypeAnnotation" => text[ast[i].start + 1] = ": "
    /\ ast[i].type = "TSTypeAliasDeclaration" =>
         text[ast[i].start + 1] = "type " /\ text[ast[i].end] = ";"
    /\ ast[i].type = "VariableDeclaration" => text[ast[i].start + 1] \in {"let ", "const "}
    /\ ast[i].type = "FunctionDeclaration" => text[ast[i].start + 1] = "function "
    /\ ast[i].type = "ClassDeclaration" => text[ast[i].start + 1] = "class "
    /\ ast[i].type \in ExportTypes => text[ast[i].start + 1] \in {"export ", "export default "}
    /\ ast[i].type = "Program" => i = 1 /\ ast[i].start = 0 /\ ast[i].end = Len(text)

\* ----------------------------------------------------------------- claims

\* The annotation sites of a tree, by the role of the annotation, read off the
\* tree's shape: "variable", "property", "return", the forms of a function
\* parameter, or "none" for an annotation that is at no site (a member of an
\* object type).
SiteRole(t, a) ==
  LET p == Parent(t, a)
      pp == IF p = 0 THEN 0 ELSE Parent(t, p)
      ppp == IF pp = 0 THEN 0 ELSE Parent(t, pp)
  IN  IF t[a].type # "TSTypeAnnotation" \/ p = 0 \/ pp = 0 THEN "none"
      ELSE IF t[a].slot = "returnType" /\ t[p].type \in FunctionTypes THEN "return"
      ELSE IF t[p].type = "PropertyDefinition" THEN "property"
      ELSE IF t[p].slot = "id" /\ t[pp].type = "VariableDeclarator"
           THEN IF t[p].type = "Identifier" THEN "variable" ELSE "variable pattern"
      ELSE IF t[p].slot = "params" /\ t[pp].type \in FunctionTypes
           THEN CASE t[p].type = "Identifier" -> "parameter"
                  [] t[p].type = "ObjectPattern" -> "object parameter"
                  [] t[p].type = "ArrayPattern" -> "array parameter"
                  [] t[p].type = "RestElement" -> "rest parameter"
                  [] OTHER -> "none"
      ELSE IF t[p].slot = "parameter" /\ t[pp].type = "TSParameterProperty"
           THEN "parameter property"
      ELSE IF /\ t[p].slot = "left" /\ t[pp].type = "AssignmentPattern"
              /\ \/ t[pp].slot = "params" /\ t[ppp].type \in FunctionTypes
                 \/ t[pp].slot = "parameter" /\ t[ppp].type = "TSParameterProperty"
           THEN "defaulted parameter"
      ELSE "none"

Annotations == {a \in 1..Len(ast) : ast[a].type = "TSTypeAnnotation"}

Sites == {a \in Annotations : SiteRole(ast, a) # "none"}

\* The annotated type of an annotation.
TypeAt(a) == Child(ast, a, "typeAnnotation")

IsLiteral(i) == i # 0 /\ ast[i].type = "TSTypeLiteral"

OneLine(i) == StartLine(ast, text, i) = EndLine(ast, text, i)

Within(i, a) == a < i /\ i <= Last(ast, a)

\* The nearest proper ancestor of i of one of the types; 0 if there is none.
RECURSIVE Enclosing(_, _)
Enclosing(i, types) ==
  LET p == Parent(ast, i)
  IN  IF p = 0 THEN 0
      ELSE IF ast[p].type \in types THEN p
      ELSE Enclosing(p, types)

\* The node whose listener looks at the site: the declarator, the property,
\* the function.
ListenerOf(a) ==
  Enclosing(a, FunctionTypes \cup {"VariableDeclarator", "PropertyDefinition"})

ReportsOf(i) == {k \in 1..Len(reports) : reports[k].node = i}

TraversalOver == pc = Len(ast) + 1

\* C1: an annotation site of any role whose type is an object type on one
\* line gets no report.
C1_SingleLineNotReported ==
  \A a \in Sites : IsLiteral(TypeAt(a)) /\ OneLine(TypeAt(a)) => ReportsOf(TypeAt(a)) = {}

\* C2: after one traversal, every multiline object type directly at an
\* annotation site (a variable, a class property, a return type, a parameter of
\* any form) has exactly one report, located at it, and no object type nested
\* in another's members has a report.
C2_ExactlyOneReport ==
  TraversalOver =>
    /\ \A a \in Sites :
         IsLiteral(TypeAt(a)) /\ ~OneLine(TypeAt(a))
         => Cardinality(ReportsOf(TypeAt(a))) = 1
    /\ \A k \in 1..Len(reports) : Enclosing(reports[k].node, {"TSTypeLiteral"}) = 0

\* What holds of every form the listeners do look at: exactly one report for
\* the object type of a site that is not a defaulted parameter, none for a
\* nested one.
ExactlyOneReportUnlessDefaulted ==
  TraversalOver =>
    /\ \A a \in Sites :
         IsLiteral(TypeAt(a)) /\ SiteRole(ast, a) # "defaulted parameter"
         => Cardinality(ReportsOf(TypeAt(a))) = 1
    /\ \A k \in 1..Len(reports) : Enclosing(reports[k].node, {"TSTypeLiteral"}) = 0

DefinitionTypes == {"TSTypeAliasDeclaration", "TSInterfaceDeclaration"}

InDefinition(i) == Enclosing(i, DefinitionTypes) # 0

\* C3: an object type that is the body of a type alias or part of an interface
\* body, or nested in the members of one, gets no report, on one line or many.
C3_DefinitionsNotReported ==
  \A k \in 1..Len(reports) : ~InDefinition(reports[k].node)

\* C3's case: a traversal has gone through a definition whose body is a
\* multiline object type with a multiline object type nested in it.
C3_Witness ==
  /\ TraversalOver
  /\ passes = 0
  /\ \E d, l, m \in 1..Len(ast) :
       /\ ast[d].type \in DefinitionTypes
       /\ IsLiteral(l) /\ Within(l, d) /\ ~OneLine(l)
       /\ IsLiteral(m) /\ Within(m, l) /\ ~OneLine(m)

\* The sites the listeners look at whose listener has run.
Looked ==
  {a \in Sites : SiteRole(ast, a) # "defaulted parameter" /\ ListenerOf(a) < pc}

\* C4: when no insertion point is found for the object type of a site, it is
\* reported all the same, once, its fix gives no edit, and the traversal goes
\* on: the sites whose listener runs later get their report too.
C4_ReportedWithoutFix ==
  \A a \in Looked :
    IsLiteral(TypeAt(a)) /\ findInsertionPointAncestor(ast, a) = 0
    => /\ Cardinality(ReportsOf(TypeAt(a))) = 1
       /\ \A k \in ReportsOf(TypeAt(a)) : reports[k].fix = <<>>
       /\ \A b \in Looked : IsLiteral(TypeAt(b)) => ReportsOf(TypeAt(b)) # {}

\* C4's case: a report without a fix has been made, the traversal has gone on
\* and a later listener has made a report.
C4_Witness ==
  \E a, b \in Looked :
    /\ IsLiteral(TypeAt(a))
    /\ findInsertionPointAncestor(ast, a) = 0
    /\ ReportsOf(TypeAt(a)) # {}
    /\ ListenerOf(a) < ListenerOf(b)
    /\ ReportsOf(TypeAt(b)) # {}
    /\ pc <= Len(ast)

\* C5: with an insertion point found, the fix is two edits: the text
\* "type <Name> = <the literal's text>;" and a blank line inserted at the first
\* character of the insertion point, and the literal's range replaced by
\* <Name>, the derived name, the same in both.
C5_FixIsInsertAndReplace ==
  \A a \in Looked :
    LET l == TypeAt(a)
        anchor == findInsertionPointAncestor(ast, a)
    IN  IsLiteral(l) /\ anchor # 0 =>
          \A k \in ReportsOf(l) :
            LET fx == reports[k].fix
            IN  /\ Len(fx) = 2
                /\ fx[1].range = <<ast[anchor].start, ast[anchor].start>>
                /\ fx[1].text = <<"type ">> \o fx[2].text \o <<" = ">>
                                \o SubSeq(text, ast[l].start + 1, ast[l].end)
                                \o <<";", "\n", "\n">>
                /\ fx[2].range = <<ast[l].start, ast[l].end>>
                /\ fx[2].text = deriveTypeName(ast, a)
                /\ fx[2].text # <<>>

\* C5's case: a report carries a fix whose insertion point is not the start
\* of the file.
C5_Witness ==
  \E k \in 1..Len(reports) :
    /\ reports[k].fix # <<>>
    /\ reports[k].fix[1].range[1] > 0
    /\ ~OneLine(reports[k].node)

\* The type declarations of the language that a name can resolve to, by the
\* language's scoping: the aliases, interfaces and classes of a statement list
\* (exported or not) and the type parameters of a function, class or alias.
DeclaresType(d, name) ==
  \/ /\ ast[d].type \in {"TSTypeAliasDeclaration", "TSInterfaceDeclaration",
                         "ClassDeclaration"}
     /\ idName(ast, d) = name
  \/ /\ ast[d].type = "TSTypeParameter"
     /\ Child(ast, d, "name") # 0
     /\ ast[Child(ast, d, "name")].name = name

DeclaredIn(scope, name) ==
  {d \in (scope + 1)..Last(ast, scope) :
     /\ DeclaresType(d, name)
     /\ LET p == Parent(ast, d)
        IN  IF ast[d].type = "TSTypeParameter"
            THEN Parent(ast, p) = scope
            ELSE /\ ast[scope].type \in {"Program", "BlockStatement", "TSModuleBlock"}
                 /\ \/ p = scope
                    \/ ast[p].type \in ExportTypes /\ Parent(ast, p) = scope}

\* The declarations a type name used at node i resolves to: those of the
\* nearest enclosing scope that declares it.
RECURSIVE Resolve(_, _)
Resolve(i, name) ==
  IF i = 0 THEN {}
  ELSE IF DeclaredIn(i, name) # {} THEN DeclaredIn(i, name)
  ELSE Resolve(Parent(ast, i), name)

TypeNamesIn(d) ==
  {r \in (d + 1)..Last(ast, d) :
     ast[r].type = "Identifier" /\ ast[r].slot = "typeName"}

\* C6: after a fix is applied, the name written at the site resolves there to
\* one type alias, whose body is the original literal and whose body's names
\* mean what they meant at the site; in every file, also one that declares or
\* derives the name elsewhere, or whose literal mentions a type parameter.
C6_FixKeepsType ==
  applied # NoFix =>
    LET ds == Resolve(applied.site, applied.name)
    IN  /\ Cardinality(ds) = 1
        /\ \A d \in ds :
             /\ ast[d].type = "TSTypeAliasDeclaration"
             /\ getText(ast, text, Child(ast, d, "typeAnnotation")) = applied.body
             /\ \A r \in TypeNamesIn(d) :
                  Resolve(r, ast[r].name) = Resolve(applied.site, ast[r].name)

\* The text a fix touches: from its insertion to the end of its replacement.
Region(fx) == fx[1].range[1]..(fx[2].range[2] - 1)

\* C7: the regions of the fixes of two reports of one file do not overlap.
C7_FixRegionsDisjoint ==
  \A j, k \in 1..Len(reports) :
    j # k /\ reports[j].fix # <<>> /\ reports[k].fix # <<>>
    => Region(reports[j].fix) \cap Region(reports[k].fix) = {}

\* The nearest node, from i upwards and below the root, that is a declaration
\* in a statement list or under an export; 0 if there is none.
RECURSIVE NearestDeclaration(_)
NearestDeclaration(i) ==
  LET p == Parent(ast, i)
  IN  IF p = 0 THEN 0
      ELSE IF /\ ast[i].type \in {"VariableDeclaration", "FunctionDeclaration",
                                  "ClassDeclaration", "TSInterfaceDeclaration",
                                  "TSTypeAliasDeclaration"}
              /\ ast[p].type \in {"Program", "BlockStatement", "ExportNamedDeclaration",
                                  "ExportDefaultDeclaration"}
           THEN i
      ELSE NearestDeclaration(p)

ExpectedAnchor(a) ==
  LET d == NearestDeclaration(a)
  IN  IF d = 0 THEN 0
      ELSE IF ast[Parent(ast, d)].type \in {"ExportNamedDeclaration",
                                            "ExportDefaultDeclaration"}
           THEN Parent(ast, d)
      ELSE d

\* C8: from an annotation, findInsertionPointAncestor gives the nearest
\* ancestor that is a variable, function, class, interface or alias declaration
\* whose parent is the Program, a block or an export declaration, and the
\* export declaration in place of the declaration in that last case; it gives
\* null exactly when no ancestor below the root is one.  The fix of a report
\* inserts there, and is null there.
C8_NearestDeclaration ==
  /\ \A a \in Annotations : findInsertionPointAncestor(ast, a) = ExpectedAnchor(a)
  /\ \A a \in Looked :
       \A k \in ReportsOf(TypeAt(a)) :
         IF ExpectedAnchor(a) = 0 THEN reports[k].fix = <<>>
         ELSE /\ reports[k].fix # <<>>
              /\ reports[k].fix[1].range[1] = ast[ExpectedAnchor(a)].start

\* C8's case: a report whose insertion point is an export declaration inside
\* a namespace, found past a declaration that is in no statement list.
C8_Witness ==
  \E a \in Looked :
    /\ ReportsOf(TypeAt(a)) # {}
    /\ ExpectedAnchor(a) # 0
    /\ ast[ExpectedAnchor(a)].type = "ExportNamedDeclaration"
    /\ ast[ExpectedAnchor(a)].start > 0

\* C9: for an annotation on a plain identifier that is a variable, a function
\* parameter or the parameter of a parameter property, and for one on a class
\* property with an identifier key, the name is PascalCase of the identifier
\* followed by Type; the fix of the report writes that name.
C9_IdentifierNames ==
  \A a \in Annotations :
    LET role == SiteRole(ast, a)
        p == Parent(ast, a)
        expected ==
          toPascalCase(IF role = "property" THEN ast[Child(ast, p, "key")].name
                       ELSE ast[p].name)
          \o <<"T", "y", "p", "e">>
    IN  \/ role \in {"variable", "parameter", "parameter property"}
        \/ role = "property" /\ Child(ast, p, "key") # 0
           /\ ast[Child(ast, p, "key")].type = "Identifier"
        => /\ deriveTypeName(ast, a) = expected
           /\ \A k \in ReportsOf(TypeAt(a)) :
                reports[k].fix # <<>> => reports[k].fix[2].text = expected

\* C9's case: one traversal has reported a parameter property cfg with the
\* name CfgType and a class property my_c with the name MyCType.
C9_Witness ==
  \E a, b \in Looked :
    /\ SiteRole(ast, a) = "parameter property"
    /\ \E k \in ReportsOf(TypeAt(a)) :
         /\ reports[k].fix # <<>>
         /\ reports[k].fix[2].text = <<"C", "f", "g", "T", "y", "p", "e">>
    /\ SiteRole(ast, b) = "property"
    /\ \E k \in ReportsOf(TypeAt(b)) :
         /\ reports[k].fix # <<>>
         /\ reports[k].fix[2].text = <<"M", "y", "C", "T", "y", "p", "e">>

\* C10: for an annotation on a destructured object parameter the name is
\* PascalCase of the function's own name followed by Props, or PropsType for a
\* function without a name; on a destructured array parameter it is
\* ParamsType.  The fix of the report writes that name.
C10_PatternNames ==
  \A a \in Annotations :
    LET role == SiteRole(ast, a)
        f == Parent(ast, Parent(ast, a))
        id == Child(ast, f, "id")
        expected ==
          IF role = "array parameter"
          THEN <<"P", "a", "r", "a", "m", "s", "T", "y", "p", "e">>
          ELSE IF id # 0
               THEN toPascalCase(ast[id].name) \o <<"P", "r", "o", "p", "s">>
               ELSE <<"P", "r", "o", "p", "s", "T", "y", "p", "e">>
    IN  role \in {"object parameter", "array parameter"}
        => /\ deriveTypeName(ast, a) = expected
           /\ \A k \in ReportsOf(TypeAt(a)) :
                reports[k].fix # <<>> => reports[k].fix[2].text = expected

\* C10's case: one traversal has reported a destructured parameter of the
\* function get_c with the name GetCProps.
C10_Witness ==
  \E a \in Looked :
    /\ SiteRole(ast, a) = "object parameter"
    /\ \E k \in ReportsOf(TypeAt(a)) :
         /\ reports[k].fix # <<>>
         /\ reports[k].fix[2].text = <<"G", "e", "t", "C", "P", "r", "o", "p", "s">>

\* The declarator a function expression is the initial value of; 0 if it is
\* none.
BoundTo(f) ==
  LET d == Parent(ast, f)
  IN  IF d # 0 /\ ast[d].type = "VariableDeclarator" /\ ast[f].slot = "init" THEN d ELSE 0

\* C11: for the annotation of a function's return type the name is PascalCase
\* of a base followed by ReturnType; the base is the function's own name, or
\* for a function without one the name of the variable it is the initial value
\* of when the declarator binds a plain identifier, or else the word Function.
\* The fix of the report writes that name.
C11_ReturnTypeNames ==
  \A a \in Annotations :
    LET f == Parent(ast, a)
        own == Child(ast, f, "id")
        d == BoundTo(f)
        base ==
          IF own # 0 THEN ast[own].name
          ELSE IF d # 0 /\ ast[Child(ast, d, "id")].type = "Identifier"
               THEN ast[Child(ast, d, "id")].name
               ELSE <<"F", "u", "n", "c", "t", "i", "o", "n">>
        expected == toPascalCase(base) \o <<"R", "e", "t", "u", "r", "n", "T", "y", "p", "e">>
    IN  SiteRole(ast, a) = "return"
        => /\ deriveTypeName(ast, a) = expected
           /\ \A k \in ReportsOf(TypeAt(a)) :
                reports[k].fix # <<>> => reports[k].fix[2].text = expected

\* C11's case: one traversal has reported the return types of the function
\* get_c, of an arrow function bound to my_c and of an arrow function that is
\* an argument, with the names GetCReturnType, MyCReturnType and
\* FunctionReturnType.
C11_Witness ==
  /\ TraversalOver
  /\ \A n \in {<<"G", "e", "t", "C">>, <<"M", "y", "C">>,
                <<"F", "u", "n", "c", "t", "i", "o", "n">>} :
        \E a \in Looked :
          /\ SiteRole(ast, a) = "return"
          /\ \E k \in ReportsOf(TypeAt(a)) :
               /\ reports[k].fix # <<>>
               /\ reports[k].fix[2].text
                    = n \o <<"R", "e", "t", "u", "r", "n", "T", "y", "p", "e">>

\* A letter, of either case.
IsLetter(c) ==
  \E i \in 1..Len(LowerLetters) : LowerLetters[i] = c \/ UpperLetters[i] = c

\* A name with each underscore that a letter follows removed and that letter
\* in upper case, and then its first character in upper case.
RECURSIVE Collapsed(_)
Collapsed(s) ==
  IF s = <<>> THEN <<>>
  ELSE IF Len(s) >= 2 /\ s[1] = "_" /\ IsLetter(s[2])
       THEN <<toUpperCase(s[2])>> \o Collapsed(SubSeq(s, 3, Len(s)))
       ELSE <<s[1]>> \o Collapsed(Tail(s))

PascalCase(s) ==
  LET c == Collapsed(s) IN IF c = <<>> THEN <<>> ELSE <<toUpperCase(c[1])>> \o Tail(c)

\* C12: the name the rule derives from an identifier is the identifier with
\* each underscore that a letter follows removed and that letter in upper
\* case, and then the first character in upper case, so no underscore that a
\* letter followed is left in it: the fix reported for a variable writes that
\* name followed by Type.
C12_PascalCase ==
  \A a \in Looked :
    SiteRole(ast, a) = "variable"
    => /\ toPascalCase(ast[Parent(ast, a)].name) = PascalCase(ast[Parent(ast, a)].name)
       /\ \A k \in ReportsOf(TypeAt(a)) :
            reports[k].fix # <<>>
            => reports[k].fix[2].text
                 = PascalCase(ast[Parent(ast, a)].name) \o <<"T", "y", "p", "e">>

\* The reports with a fix, each with the anchor resolved for its annotation.
Anchored ==
  {<<q[1], findInsertionPointAncestor(ast, q[2])>> :
     q \in {r \in (1..Len(reports)) \X Looked :
              reports[r[1]].fix # <<>> /\ TypeAt(r[2]) = reports[r[1]].node}}

\* The anchor is an ancestor of the literal of the report, and the fix inserts
\* at its first character.
AnchorEncloses(k, anchor) ==
  /\ anchor # 0
  /\ Within(reports[k].node, anchor)
  /\ reports[k].fix[1].range[1] = ast[anchor].start

\* C13: every anchor that is not null is a proper ancestor of the reported
\* literal and a direct child of a Program or of a BlockStatement.
C13_AnchorInProgramOrBlock ==
  \A p \in Anchored :
    /\ AnchorEncloses(p[1], p[2])
    /\ ast[Parent(ast, p[2])].type \in {"Program", "BlockStatement"}

\* C13 as amended: every anchor that is not null is a proper ancestor of the
\* reported literal and is either a declaration that is a direct child of a
\* Program or of a BlockStatement, or the export declaration that wraps the
\* declaration, a direct child of a Program or of the block of a namespace;
\* in each case it is a statement of a statement list around the literal.
C13_AnchorInStatementList ==
  \A p \in Anchored :
    LET anchor == p[2]
        list == Parent(ast, anchor)
    IN  /\ AnchorEncloses(p[1], anchor)
        /\ ast[anchor].slot = "body"
        /\ Within(reports[p[1]].node, list)
        /\ IF ast[anchor].type \in {"ExportNamedDeclaration", "ExportDefaultDeclaration"}
           THEN /\ ast[list].type \in {"Program", "TSModuleBlock"}
                /\ Child(ast, anchor, "declaration") # 0
                /\ Within(reports[p[1]].node, Child(ast, anchor, "declaration"))
           ELSE /\ ast[list].type \in {"Program", "BlockStatement"}
                /\ ast[anchor].type \in {"VariableDeclaration", "FunctionDeclaration",
                                          "ClassDeclaration", "TSInterfaceDeclaration",
                                          "TSTypeAliasDeclaration"}

\* C13's case: the traversal of a file is over with a report whose anchor is
\* an export declaration in the block of a namespace.
C13_Witness ==
  /\ TraversalOver
  /\ \E p \in Anchored :
       /\ ast[p[2]].type = "ExportNamedDeclaration"
       /\ ast[Parent(ast, p[2])].type = "TSModuleBlock"
       /\ Within(reports[p[1]].node, p[2])

\* The annotations the listener of a node hands to the check.
Listener(t, node) ==
  CASE t[node].type = "VariableDeclarator" -> VariableDeclarator(t, node)
    [] t[node].type = "PropertyDefinition" -> PropertyDefinition(t, node)
    [] t[node].type \in FunctionTypes -> function(t, node)
    [] OTHER -> unlisted(t, node)

\* The reports of one whole traversal of a tree, from node i on.
RECURSIVE Analysis(_, _, _)
Analysis(t, tx, i) ==
  IF i > Len(t) THEN <<>>
  ELSE checkAll(t, tx, Listener(t, i)) \o Analysis(t, tx, i + 1)

\* The findings of a file in traversal order, each by what stays the same
\* when text is inserted elsewhere: the name derived for it, the text of its
\* literal, whether it carries a fix.
Findings(t, tx) ==
  LET found == Analysis(t, tx, 1)
  IN  [k \in 1..Len(found) |->
         [name |-> deriveTypeName(t, Parent(t, found[k].node)),
          body |-> getText(t, tx, found[k].node),
          fixable |-> found[k].fix # <<>>]]

Without(seq, k) == SubSeq(seq, 1, k - 1) \o SubSeq(seq, k + 1, Len(seq))

\* An application of a fix takes the fixed finding, and only it, out of the
\* findings of the file, and adds none.
RemovesOneFinding ==
  passes' # passes
  => /\ reports = Analysis(ast, text, 1)
     /\ \E k \in 1..Len(reports) :
          /\ reports[k].fix # <<>>
          /\ reports[k].fix[2].text = applied'.name
          /\ getText(ast, text, reports[k].node) = applied'.body
          /\ Findings(ast', text') = Without(Findings(ast, text), k)

\* No report of the finished traversal carries a fix.
Settled == TraversalOver /\ \A k \in 1..Len(reports) : reports[k].fix = <<>>

\* C14: when the host goes on picking a report with a fix, applying its two
\* edits and analysing the new text, each application removes that finding
\* and brings no new one, and in the end a traversal finishes with no report
\* that carries a fix.
C14_FixesConverge == [][RemovesOneFinding]_vars /\ <>Settled

\* C14's case: three fixes or more have been applied to one file, one after
\* the other, and the traversal after the last is over with no report that
\* carries a fix.
C14_Witness ==
  /\ Settled
  /\ passes >= 3
  /\ applied # NoFix

====
